---------------------------- MODULE Spec2Model ----------------------------
(***************************************************************************)
(* A model of the YouTube audio downloader: the URL validator, the         *)
(* configuration manager, the options builder, the extraction/download     *)
(* facade and the interactive session that drives them.                    *)
(*                                                                         *)
(* Python strings are TLA+ strings (TLC evaluates Len, SubSeq and \o on    *)
(* them).  An Optional[T] value is the empty tuple for None and the        *)
(* one-element tuple <<v>> for a value v.                                  *)
(***************************************************************************)
EXTENDS Integers, Sequences, FiniteSets, TLC

VARIABLES
    url,            \* the argument handed to a URLValidator method
    call,           \* the last URLValidator call: [fn, ret]
    file,           \* the configuration file: [kind, doc, written]
    cfg,            \* ConfigManager._config: None or the DownloadConfig record
    cmCall,         \* the last ConfigManager call: [fn, kwargs, raised, pre, prior, loaded]
    pc,             \* where the session (main, CLI.__init__, CLI.run) stands
    svc,            \* the dict YouTubeService was built with: None before
    dirs,           \* the directories created so far
    playlist_url,   \* the URL entered at the prompt
    playlist_info,  \* what get_playlist_info returned: None or Some(PlaylistInfo)
    log,            \* what the session did, in order: engine calls and panels
    fault           \* the exception that left CLI() or run(), "" when none

urlVars == <<url, call>>

cmVars == <<file, cfg, cmCall>>

cliVars == <<pc, svc, dirs, playlist_url, playlist_info, log, fault>>

vars == <<url, call, file, cfg, cmCall, pc, svc, dirs, playlist_url, playlist_info,
          log, fault>>

---------------------------------------------------------------------------
(* Optional values and string helpers                                      *)

None == <<>>

Some(v) == <<v>>

\* s[i] of Python, 1-based: the one-character string at position i
Char(s, i) == SubSeq(s, i, i)

\* s[i-1:] of Python: the suffix starting at position i
From(s, i) == IF i > Len(s) THEN "" ELSE SubSeq(s, i, Len(s))

\* s.startswith(lit, i-1)
StartsWithAt(s, i, lit) ==
    /\ i >= 1
    /\ i + Len(lit) - 1 <= Len(s)
    /\ (Len(lit) = 0 \/ SubSeq(s, i, i + Len(lit) - 1) = lit)

\* lit in s
Contains(s, lit) == \E i \in 1..(Len(s) + 1) : StartsWithAt(s, i, lit)

\* s.find(lit) + 1: the first position of lit in s, 0 when there is none
Find(s, lit) ==
    LET hits == {i \in 1..(Len(s) + 1) : StartsWithAt(s, i, lit)}
    IN  IF hits = {} THEN 0 ELSE CHOOSE i \in hits : \A j \in hits : i <= j

UpperLetters == "ABCDEFGHIJKLMNOPQRSTUVWXYZ"

LowerLetters == "abcdefghijklmnopqrstuvwxyz"

Digits == "0123456789"

CharsOf(s) == {Char(s, i) : i \in 1..Len(s)}

\* one character through str.lower() / str.upper()
LowerChar(c) ==
    LET k == Find(UpperLetters, c) IN IF k = 0 THEN c ELSE Char(LowerLetters, k)

UpperChar(c) ==
    LET k == Find(LowerLetters, c) IN IF k = 0 THEN c ELSE Char(UpperLetters, k)

RECURSIVE Lower(_)
Lower(s) == IF s = "" THEN "" ELSE LowerChar(Char(s, 1)) \o Lower(From(s, 2))

RECURSIVE Upper(_)
Upper(s) == IF s = "" THEN "" ELSE UpperChar(Char(s, 1)) \o Upper(From(s, 2))

---------------------------------------------------------------------------
(* urllib.parse.urlparse, as far as the validator reads its result: the    *)
(* scheme and the netloc.  Inputs hold no whitespace, control characters   *)
(* or brackets, so the stripping steps and the IPv6 check do nothing.      *)

SchemeChars == CharsOf(LowerLetters) \cup CharsOf(UpperLetters)
                 \cup CharsOf(Digits) \cup {"+", "-", "."}

Letters == CharsOf(LowerLetters) \cup CharsOf(UpperLetters)

\* the position of the ':' that ends a scheme, 0 when the URL has no scheme
SchemeEnd(s) ==
    LET i == Find(s, ":")
    IN  IF /\ i > 1
           /\ Char(s, 1) \in Letters
           /\ \A j \in 1..(i - 1) : Char(s, j) \in SchemeChars
        THEN i ELSE 0

urlparse_scheme(s) ==
    IF SchemeEnd(s) = 0 THEN "" ELSE Lower(SubSeq(s, 1, SchemeEnd(s) - 1))

\* the netloc: what follows a leading '//' up to the first of '/', '?', '#'
urlparse_netloc(s) ==
    LET rest == From(s, SchemeEnd(s) + 1)
        stops == {i \in 3..Len(rest) : Char(rest, i) \in {"/", "?", "#"}}
        stop == IF stops = {} THEN Len(rest) + 1
                ELSE CHOOSE i \in stops : \A j \in stops : i <= j
    IN  IF StartsWithAt(rest, 1, "//") THEN
            (IF stop <= 3 THEN "" ELSE SubSeq(rest, 3, stop - 1))
        ELSE ""

---------------------------------------------------------------------------
(* URLValidator (core/validator.py).  A method's argument x is Some(s) for *)
(* the string s and None for a value that is not a string.                 *)

IsStr(x) == x # None

Str(x) == x[1]

\* `not url or not isinstance(url, str)`
EmptyOrNotStr(x) == ~IsStr(x) \/ Str(x) = ""

is_valid_url(x) ==
    IF EmptyOrNotStr(x) THEN FALSE
    ELSE urlparse_scheme(Str(x)) # "" /\ urlparse_netloc(Str(x)) # ""

youtube_domains == {"youtube.com", "www.youtube.com", "youtu.be", "music.youtube.com"}

is_youtube_url(x) ==
    IF ~is_valid_url(x) THEN FALSE
    ELSE Lower(urlparse_netloc(Str(x))) \in youtube_domains

is_playlist_url(x) ==
    IF ~is_youtube_url(x) THEN FALSE
    ELSE Contains(Str(x), "list=") \/ Contains(Str(x), "playlist")

\* a faulty variant of get_url_type: the classification without the check
\* of the authority
get_url_type_any_host(x) ==
    IF EmptyOrNotStr(x) THEN "unknown"
    ELSE IF Contains(Str(x), "playlist") \/ Contains(Str(x), "list=") THEN "playlist"
    ELSE IF Contains(Str(x), "watch?v=") \/ Contains(Str(x), "youtu.be/") THEN "video"
    ELSE IF Contains(Str(x), "channel/") \/ Contains(Str(x), "user/")
            \/ Contains(Str(x), "/c/") THEN "channel"
    ELSE "unknown"

get_url_type(x) ==
    IF ~is_youtube_url(x) THEN "unknown"
    ELSE IF Contains(Str(x), "playlist") \/ Contains(Str(x), "list=") THEN "playlist"
    ELSE IF Contains(Str(x), "watch?v=") \/ Contains(Str(x), "youtu.be/") THEN "video"
    ELSE IF Contains(Str(x), "channel/") \/ Contains(Str(x), "user/")
            \/ Contains(Str(x), "/c/") THEN "channel"
    ELSE "unknown"

MsgEmpty == "URL is empty or not a string"

MsgFormat == "Invalid URL format"

MsgNotYoutube == "URL is not a valid YouTube URL"

MsgUnknownType == "Unknown YouTube URL type"

MsgValid(t) == "Valid " \o t \o " URL"

\* a faulty variant of validate_url: the classification is looked at before
\* the site
validate_url_type_first(x) ==
    IF EmptyOrNotStr(x) THEN [ok |-> FALSE, msg |-> MsgEmpty]
    ELSE IF ~is_valid_url(x) THEN [ok |-> FALSE, msg |-> MsgFormat]
    ELSE IF get_url_type(x) = "unknown" THEN [ok |-> FALSE, msg |-> MsgUnknownType]
    ELSE IF ~is_youtube_url(x) THEN [ok |-> FALSE, msg |-> MsgNotYoutube]
    ELSE [ok |-> TRUE, msg |-> MsgValid(get_url_type(x))]

\* the tuple (is_valid, message)
validate_url(x) ==
    IF EmptyOrNotStr(x) THEN [ok |-> FALSE, msg |-> MsgEmpty]
    ELSE IF ~is_valid_url(x) THEN [ok |-> FALSE, msg |-> MsgFormat]
    ELSE IF ~is_youtube_url(x) THEN [ok |-> FALSE, msg |-> MsgNotYoutube]
    ELSE IF get_url_type(x) = "unknown" THEN [ok |-> FALSE, msg |-> MsgUnknownType]
    ELSE [ok |-> TRUE, msg |-> MsgValid(get_url_type(x))]

\* a faulty variant of validate_proxy_url: any scheme is accepted
validate_proxy_url_any_scheme(x) == is_valid_url(x)

valid_schemes == {"http", "https", "socks4", "socks5"}

validate_proxy_url(x) ==
    IF EmptyOrNotStr(x) THEN FALSE
    ELSE urlparse_scheme(Str(x)) \in valid_schemes /\ urlparse_netloc(Str(x)) # ""

---------------------------------------------------------------------------
(* The youtube_patterns table and re.search over it.  Every pattern has    *)
(* the shape                                                               *)
(*     (?:https?://)?  [(?:www\.)?]  literal  ([a-zA-Z0-9_-]+)  [second]   *)
(* where second is (?:&list=([a-zA-Z0-9_-]+))? in the watch pattern only.  *)
(* A pattern is the record of its optional prefixes, in the order the      *)
(* backtracking matcher tries them (greedy: the longer alternative first), *)
(* its literal, and the literal that introduces its second group ("" when  *)
(* it has one group).                                                      *)

IdChars == CharsOf(LowerLetters) \cup CharsOf(UpperLetters)
             \cup CharsOf(Digits) \cup {"_", "-"}

WithWww == <<"https://www.", "https://", "http://www.", "http://", "www.", "">>

NoWww == <<"https://", "http://", "">>

youtube_patterns == <<
    [prefixes |-> WithWww, literal |-> "youtube.com/playlist?list=", second |-> ""],
    [prefixes |-> WithWww, literal |-> "youtube.com/watch?v=", second |-> "&list="],
    [prefixes |-> NoWww, literal |-> "youtu.be/", second |-> ""],
    [prefixes |-> WithWww, literal |-> "youtube.com/channel/", second |-> ""],
    [prefixes |-> WithWww, literal |-> "youtube.com/user/", second |-> ""],
    [prefixes |-> WithWww, literal |-> "youtube.com/c/", second |-> ""],
    [prefixes |-> NoWww, literal |-> "music.youtube.com/playlist?list=", second |-> ""] >>

\* the length of the longest run of identifier characters starting at position i
IdRun(s, i) ==
    LET stops == {j \in i..Len(s) : Char(s, j) \notin IdChars}
    IN  IF i > Len(s) THEN 0
        ELSE IF stops = {} THEN Len(s) - i + 1
        ELSE (CHOOSE j \in stops : \A k \in stops : j <= k) - i

\* the groups of the match of pat that starts at position i with the prefix
\* alternative pre, or None when that alternative does not match there
GroupsWith(pat, s, i, pre) ==
    LET head == pre \o pat.literal
        g1 == i + Len(head)
        n1 == IdRun(s, g1)
        g2 == g1 + n1 + Len(pat.second)
        n2 == IF StartsWithAt(s, g1 + n1, pat.second) THEN IdRun(s, g2) ELSE 0
    IN  IF ~StartsWithAt(s, i, head) \/ n1 = 0 THEN None
        ELSE IF pat.second = "" THEN Some(<<Some(SubSeq(s, g1, g1 + n1 - 1))>>)
        ELSE Some(<<Some(SubSeq(s, g1, g1 + n1 - 1)),
                    IF n2 = 0 THEN None ELSE Some(SubSeq(s, g2, g2 + n2 - 1))>>)

\* the match of pat at position i: its first prefix alternative that matches
MatchAt(pat, s, i) ==
    LET ks == {k \in 1..Len(pat.prefixes) : GroupsWith(pat, s, i, pat.prefixes[k]) # None}
    IN  IF ks = {} THEN None
        ELSE GroupsWith(pat, s, i, pat.prefixes[CHOOSE k \in ks : \A m \in ks : k <= m])

\* re.search(pattern, url): match.groups() of the leftmost match, or None
re_search(pat, s) ==
    LET starts == {i \in 1..Len(s) : MatchAt(pat, s, i) # None}
    IN  IF ~Contains(s, pat.literal) \/ starts = {} THEN None
        ELSE MatchAt(pat, s, CHOOSE i \in starts : \A j \in starts : i <= j)

\* a captured group is returned only when it is longer than this
IdThreshold == 10

\* a faulty variant of FirstLongGroup: the first group that took part in the
\* match, whatever its length
FirstGroup(groups) ==
    LET taken == {i \in 1..Len(groups) : groups[i] # None /\ groups[i][1] # ""}
    IN  IF taken = {} THEN None
        ELSE groups[CHOOSE i \in taken : \A j \in taken : i <= j]

\* `for group in groups: if group and len(group) > 10: return group`
RECURSIVE FirstLongGroup(_)
FirstLongGroup(groups) ==
    IF groups = <<>> THEN None
    ELSE IF Head(groups) # None /\ Len(Head(groups)[1]) > IdThreshold
         THEN Head(groups)
         ELSE FirstLongGroup(Tail(groups))

\* a faulty variant of ScanPatterns: the first pattern that matches decides,
\* whatever the length of its groups
RECURSIVE ScanFirstMatch(_, _)
ScanFirstMatch(s, k) ==
    IF k > Len(youtube_patterns) THEN None
    ELSE LET m == re_search(youtube_patterns[k], s)
         IN  IF m # None THEN FirstLongGroup(m[1])
             ELSE ScanFirstMatch(s, k + 1)

\* the loop over the patterns from index k on; Some(id) or None
RECURSIVE ScanPatterns(_, _)
ScanPatterns(s, k) ==
    IF k > Len(youtube_patterns) THEN None
    ELSE LET m == re_search(youtube_patterns[k], s)
         IN  IF m # None /\ FirstLongGroup(m[1]) # None
             THEN FirstLongGroup(m[1])
             ELSE ScanPatterns(s, k + 1)

\* the argument is a string (re.search raises TypeError otherwise)
extract_playlist_id(x) == ScanPatterns(Str(x), 1)

---------------------------------------------------------------------------
(* DownloadConfig and ConfigManager (config/config_manager.py).            *)

Fields == {"output_directory", "proxy_url", "audio_quality", "log_level",
           "skip_downloaded", "download_start_index", "download_end_index",
           "max_downloads", "output_filename_template", "embed_thumbnail",
           "add_metadata", "sleep_interval_between_videos", "force_overwrites",
           "display_progress_bar"}

\* the field defaults of DownloadConfig
DefaultConfig ==
    [output_directory |-> "downloaded_youtube_music",
     proxy_url |-> None,
     audio_quality |-> "320k",
     log_level |-> "INFO",
     skip_downloaded |-> TRUE,
     download_start_index |-> None,
     download_end_index |-> None,
     max_downloads |-> None,
     output_filename_template |-> "%(playlist_index)s - %(title)s.%(ext)s",
     embed_thumbnail |-> FALSE,
     add_metadata |-> TRUE,
     sleep_interval_between_videos |-> 0,
     force_overwrites |-> FALSE,
     display_progress_bar |-> TRUE]

valid_qualities == {"64k", "128k", "192k", "256k", "320k"}

valid_levels == {"DEBUG", "INFO", "WARNING", "ERROR", "CRITICAL"}

\* the two field validators: TRUE when the validator accepts the value
validate_audio_quality(v) == v \in valid_qualities

validate_log_level(v) == Upper(v) \in valid_levels

\* DownloadConfig(**data): the keys of data that are fields, the defaults for
\* the fields data lacks, each value through its validator.
\* [raised, config]: raised is "" or the exception; config the record built.
DownloadConfig(data) ==
    LET merged == [f \in Fields |-> IF f \in DOMAIN data THEN data[f] ELSE DefaultConfig[f]]
    IN  IF ~validate_audio_quality(merged.audio_quality)
           \/ ~validate_log_level(merged.log_level)
        THEN [raised |-> "ValidationError", config |-> DefaultConfig]
        ELSE [raised |-> "",
              config |-> [merged EXCEPT !.log_level = Upper(merged.log_level)]]

\* the file after save_config(config): json.dump(config.dict())
save_config(config) == [kind |-> "doc", doc |-> config, written |-> TRUE]

\* a faulty variant of create_default_config: an empty document is persisted
create_empty_config == save_config(<<>>)

\* _create_default_config
create_default_config == save_config(DownloadConfig(<<>>).config)

\* a faulty variant of load_config: the file is overwritten with the defaults
\* once it has been read
load_config_recreating(f) ==
    LET f1 == IF f.kind = "absent" THEN create_default_config ELSE f
        built == DownloadConfig(f1.doc)
    IN  IF f1.kind = "malformed"
        THEN [raised |-> "JSONDecodeError", file |-> f1, config |-> DefaultConfig]
        ELSE [raised |-> built.raised, file |-> create_default_config,
              config |-> built.config]

\* load_config on the file f: [raised, file, config]; config is the record
\* assigned to _config, meaningful when nothing is raised
load_config(f) ==
    LET f1 == IF f.kind = "absent" THEN create_default_config ELSE f
        built == DownloadConfig(f1.doc)
    IN  IF f1.kind = "malformed"
        THEN [raised |-> "JSONDecodeError", file |-> f1, config |-> DefaultConfig]
        ELSE [raised |-> built.raised, file |-> f1, config |-> built.config]

\* names that a DownloadConfig instance has as attributes and that are not
\* fields: methods of BaseModel and of the class (a sample of them)
ModelAttributes == {"dict", "json", "copy", "validate_audio_quality"}

\* hasattr(self._config, key): true of the fields and of the other attributes
hasattr(config, key) == key \in DOMAIN config \cup ModelAttributes

\* setattr(self._config, key, value) raises ValueError ('object has no field')
\* for a name that is not a field; for a field it assigns without validation
setattr_raises(config, key) == key \notin DOMAIN config

\* the loop of update_config: setattr for every key the record has.  The
\* keys are taken in the order of the call; the calls of the model name
\* their fields first.
apply_kwargs(config, kwargs) ==
    [f \in DOMAIN config |->
        IF f \in DOMAIN kwargs /\ hasattr(config, f) THEN kwargs[f] ELSE config[f]]

\* update_config(**kwargs) on the file f and _config c: [raised, file, cfg]
update_config(f, c, kwargs) ==
    LET loaded == load_config(f)
        f1 == IF c = None THEN loaded.file ELSE f
        c1 == IF c = None THEN loaded.config ELSE c[1]
        merged == apply_kwargs(c1, kwargs)
    IN  IF c = None /\ loaded.raised # ""
        THEN [raised |-> loaded.raised, file |-> f1, cfg |-> None]
        ELSE IF \E key \in DOMAIN kwargs : hasattr(c1, key) /\ setattr_raises(c1, key)
        THEN [raised |-> "ValueError", file |-> f1, cfg |-> Some(merged)]
        ELSE [raised |-> "", file |-> save_config(merged), cfg |-> Some(merged)]

---------------------------------------------------------------------------
(* The options builder of AudioDownloader (core/downloader.py) and the     *)
(* options of InfoExtractor (core/extractor.py).  A key that the code sets *)
(* only under a condition is an Optional value of the record.              *)

\* self.config.get(key, default) on the dict the service was built with
ConfigGet(config, key, default) ==
    IF key \in DOMAIN config THEN config[key] ELSE default

\* truthiness of an Optional[str]: neither None nor ""
Truthy(opt) == opt # None /\ opt[1] # ""

\* str(n) for an integer
RECURSIVE NatToStr(_)
NatToStr(n) ==
    IF n < 10 THEN Char(Digits, n + 1)
    ELSE NatToStr(n \div 10) \o Char(Digits, (n % 10) + 1)

IntToStr(n) == IF n < 0 THEN "-" \o NatToStr(0 - n) ELSE NatToStr(n)

\* s.replace(c, '') for a one-character c
RECURSIVE RemoveChar(_, _)
RemoveChar(s, c) ==
    IF s = "" THEN ""
    ELSE (IF Char(s, 1) = c THEN "" ELSE Char(s, 1)) \o RemoveChar(From(s, 2), c)

\* str(self.output_dir / name)
PathJoin(dir, name) == dir \o "/" \o name

\* _configure_playlist_range: the value of 'playlist_items', None when unset
configure_playlist_range(config) ==
    LET start_idx == ConfigGet(config, "download_start_index", None)
        end_idx == ConfigGet(config, "download_end_index", None)
    IN  IF start_idx # None \/ end_idx # None
        THEN Some((IF start_idx # None /\ start_idx[1] # 0
                   THEN IntToStr(start_idx[1]) ELSE "1")
                  \o ":" \o
                  (IF end_idx # None /\ end_idx[1] # 0
                   THEN IntToStr(end_idx[1]) ELSE ""))
        ELSE None

\* a faulty variant of configure_postprocessors: the metadata step comes first
configure_postprocessors_swapped(config) ==
    (IF ConfigGet(config, "add_metadata", TRUE)
     THEN <<[key |-> "FFmpegMetadata"]>> ELSE <<>>)
    \o (IF ConfigGet(config, "embed_thumbnail", FALSE)
        THEN <<[key |-> "EmbedThumbnail", already_have_thumbnail |-> FALSE]>> ELSE <<>>)

\* _configure_postprocessors: the steps appended to the list
configure_postprocessors(config) ==
    (IF ConfigGet(config, "embed_thumbnail", FALSE)
     THEN <<[key |-> "EmbedThumbnail", already_have_thumbnail |-> FALSE]>> ELSE <<>>)
    \o (IF ConfigGet(config, "add_metadata", TRUE)
        THEN <<[key |-> "FFmpegMetadata"]>> ELSE <<>>)

\* _configure_ydl_options(dry_run), output_dir being Path(output_directory)
configure_ydl_options(config, dry_run) ==
    LET output_dir == ConfigGet(config, "output_directory", "downloads")
        quality == ConfigGet(config, "audio_quality", "320k")
        progress == ConfigGet(config, "display_progress_bar", TRUE)
    IN  [format |-> "bestaudio/best",
         extractaudio |-> TRUE,
         audioformat |-> "mp3",
         audioquality |-> quality,
         outtmpl |-> PathJoin(output_dir,
                        ConfigGet(config, "output_filename_template", "%(title)s.%(ext)s")),
         ignoreerrors |-> TRUE,
         simulate |-> dry_run,
         verbose |-> FALSE,
         quiet |-> IF dry_run THEN TRUE ELSE ~progress,
         noprogress |-> IF dry_run THEN TRUE ELSE ~progress,
         postprocessors |->
             <<[key |-> "FFmpegExtractAudio", preferredcodec |-> "mp3",
                preferredquality |-> RemoveChar(quality, "k")]>>
             \o configure_postprocessors(config),
         download_archive |->
             IF ConfigGet(config, "skip_downloaded", TRUE)
             THEN Some(PathJoin(output_dir, "downloaded_archive.txt")) ELSE None,
         proxy |-> IF Truthy(ConfigGet(config, "proxy_url", None))
                   THEN ConfigGet(config, "proxy_url", None) ELSE None,
         playlist_items |-> configure_playlist_range(config),
         progress_hooks |-> ~dry_run /\ progress]

\* InfoExtractor._get_ydl_options
get_ydl_options(config) ==
    [quiet |-> TRUE,
     no_warnings |-> TRUE,
     simulate |-> TRUE,
     extract_flat |-> FALSE,
     proxy |-> IF Truthy(ConfigGet(config, "proxy_url", None))
               THEN ConfigGet(config, "proxy_url", None) ELSE None]

---------------------------------------------------------------------------
(* The external engine (yt_dlp.YoutubeDL) and the facade over it.  A call  *)
(* of the engine either raises or returns; what it does is the             *)
(* environment's choice.  A dict of the engine's response is a record      *)
(* whose every key holds <<"absent">> (no such key), <<"null">> (the key   *)
(* holds None) or <<"val", v>>.                                            *)

Absent == <<"absent">>

Null == <<"null">>

Val(v) == <<"val", v>>

\* d.get(key, default) as an Optional: None, or Some(value)
DictGet(d, key, default) ==
    IF d[key][1] = "absent" THEN default
    ELSE IF d[key][1] = "null" THEN None
    ELSE Some(d[key][2])

\* an empty dict is falsy
IsEmptyDict(d) == \A k \in DOMAIN d : d[k][1] = "absent"

\* `if not x` for an Optional dict
Falsy(d) == d = None \/ IsEmptyDict(d[1])

\* VideoInfo(...): id, title and url must be strings.  [raised, value]
VideoInfo(id, title, duration, uploader, url_) ==
    IF id = None \/ title = None \/ url_ = None
    THEN [raised |-> "ValidationError"]
    ELSE [raised |-> "",
          value |-> [id |-> id[1], title |-> title[1], duration |-> duration,
                     uploader |-> uploader, upload_date |-> None, url |-> url_[1]]]

\* PlaylistInfo(...): id, title and url must be strings, video_count >= 0
PlaylistInfo(id, title, uploader, description, video_count, videos, url_) ==
    IF id = None \/ title = None \/ url_ = None \/ video_count < 0
    THEN [raised |-> "ValidationError"]
    ELSE [raised |-> "",
          value |-> [id |-> id[1], title |-> title[1], uploader |-> uploader,
                     description |-> description, video_count |-> video_count,
                     videos |-> videos, url |-> url_[1]]]

\* the VideoInfo built from one entry of a multi-item response
EntryVideo(entry) ==
    VideoInfo(DictGet(entry, "id", Some("")),
              DictGet(entry, "title", Some("Unknown")),
              DictGet(entry, "duration", None),
              DictGet(entry, "uploader", None),
              DictGet(entry, "webpage_url", DictGet(entry, "url", Some(""))))

\* a faulty variant of MapEntries: the videos come out in reverse order
RECURSIVE MapEntries_reversed(_)
MapEntries_reversed(entries) ==
    IF entries = <<>> THEN [raised |-> "", videos |-> <<>>]
    ELSE LET rest == MapEntries_reversed(Tail(entries))
             v == EntryVideo(Head(entries)[1])
         IN  IF Falsy(Head(entries)) THEN rest
             ELSE IF v.raised # "" THEN [raised |-> v.raised, videos |-> <<>>]
             ELSE IF rest.raised # "" THEN rest
             ELSE [raised |-> "", videos |-> rest.videos \o <<v.value>>]

\* the loop over the entries: [raised, videos]; a falsy entry is skipped
RECURSIVE MapEntries(_)
MapEntries(entries) ==
    IF entries = <<>> THEN [raised |-> "", videos |-> <<>>]
    ELSE LET rest == MapEntries(Tail(entries))
             v == EntryVideo(Head(entries)[1])
         IN  IF Falsy(Head(entries)) THEN rest
             ELSE IF v.raised # "" THEN [raised |-> v.raised, videos |-> <<>>]
             ELSE IF rest.raised # "" THEN rest
             ELSE [raised |-> "", videos |-> <<v.value>> \o rest.videos]

\* a faulty variant of map_info: a single item keeps its own description
map_info_plain(info, url_) ==
    IF Falsy(info) THEN [raised |-> "", ret |-> None]
    ELSE LET v == VideoInfo(DictGet(info[1], "id", Some("")),
                            DictGet(info[1], "title", Some("Unknown")),
                            DictGet(info[1], "duration", None),
                            DictGet(info[1], "uploader", None),
                            Some(url_))
             p == PlaylistInfo(Some(v.value.id), Some(v.value.title), v.value.uploader,
                               DictGet(info[1], "description", None), 1, <<v.value>>,
                               Some(url_))
         IN  IF v.raised # "" THEN [raised |-> v.raised, ret |-> None]
             ELSE [raised |-> "", ret |-> Some(p.value)]

\* the body of the try block, given what extract_info returned: [raised, ret]
map_info(info, url_) ==
    IF Falsy(info) THEN [raised |-> "", ret |-> None]
    ELSE IF info[1].entries[1] # "absent" THEN
        (IF info[1].entries[1] = "null" THEN [raised |-> "TypeError", ret |-> None]
         ELSE LET m == MapEntries(info[1].entries[2])
                  p == PlaylistInfo(DictGet(info[1], "id", Some("")),
                                    DictGet(info[1], "title", Some("Unknown Playlist")),
                                    DictGet(info[1], "uploader", None),
                                    DictGet(info[1], "description", None),
                                    Len(m.videos), m.videos, Some(url_))
              IN  IF m.raised # "" THEN [raised |-> m.raised, ret |-> None]
                  ELSE IF p.raised # "" THEN [raised |-> p.raised, ret |-> None]
                  ELSE [raised |-> "", ret |-> Some(p.value)])
    ELSE LET v == VideoInfo(DictGet(info[1], "id", Some("")),
                            DictGet(info[1], "title", Some("Unknown")),
                            DictGet(info[1], "duration", None),
                            DictGet(info[1], "uploader", None),
                            Some(url_))
             p == PlaylistInfo(Some(v.value.id), Some(v.value.title), v.value.uploader,
                               Some("Single video"), 1, <<v.value>>, Some(url_))
         IN  IF v.raised # "" THEN [raised |-> v.raised, ret |-> None]
             ELSE [raised |-> "", ret |-> Some(p.value)]

\* the exceptions `except Exception` catches: all but the process-level ones
\* (KeyboardInterrupt and SystemExit derive from BaseException only)
IsException(exc) == exc \notin {"KeyboardInterrupt", "SystemExit"}

\* the two except clauses of a facade method: "" when the exception is
\* caught, the exception when it propagates
Uncaught(exc) == IF exc = "" \/ IsException(exc) THEN "" ELSE exc

\* a faulty variant of extract_playlist_info: only DownloadError is caught
extract_playlist_info_narrow(outcome, url_) ==
    LET body == IF outcome[1] = "raise"
                THEN [raised |-> outcome[2], ret |-> None]
                ELSE map_info(outcome[2], url_)
    IN  [raised |-> IF body.raised = "DownloadError" THEN "" ELSE body.raised,
         ret |-> IF body.raised = "" THEN body.ret ELSE None]

\* extract_playlist_info(url) when the engine does `outcome`: [raised, ret];
\* raised is the exception that leaves the method, "" when none does
extract_playlist_info(outcome, url_) ==
    LET body == IF outcome[1] = "raise"
                THEN [raised |-> outcome[2], ret |-> None]
                ELSE map_info(outcome[2], url_)
    IN  [raised |-> Uncaught(body.raised),
         ret |-> IF body.raised = "" THEN body.ret ELSE None]

\* a faulty variant of download: the generic exception is reported as success
download_lenient(outcome) ==
    LET exc == IF outcome[1] = "raise" THEN outcome[2] ELSE ""
    IN  [raised |-> Uncaught(exc),
         ret |-> IF exc \in {"", "Exception"} THEN Some(TRUE)
                 ELSE IF Uncaught(exc) = "" THEN Some(FALSE)
                 ELSE None]

\* download(url) when the engine does `outcome`: [raised, ret]; ret is
\* Some(TRUE), Some(FALSE), or None when an exception leaves the method
download(outcome) ==
    LET exc == IF outcome[1] = "raise" THEN outcome[2] ELSE ""
    IN  [raised |-> Uncaught(exc),
         ret |-> IF exc = "" THEN Some(TRUE)
                 ELSE IF Uncaught(exc) = "" THEN Some(FALSE)
                 ELSE None]

---------------------------------------------------------------------------
(* The configuration files a run may start from, and ConfigManager        *)
(* exercised as a library: load_config, the config property, save_config   *)
(* and update_config in any order.                                         *)

AbsentFile == [kind |-> "absent", doc |-> <<>>, written |-> FALSE]

MalformedFile == [kind |-> "malformed", doc |-> <<>>, written |-> FALSE]

UserFile(doc) == [kind |-> "doc", doc |-> doc, written |-> FALSE]

InitFiles == <<
    AbsentFile,
    MalformedFile,
    UserFile(DefaultConfig),
    UserFile([log_level |-> "debug", proxy_url |-> Some("http://127.0.0.1:8080")]),
    UserFile([DefaultConfig EXCEPT !.audio_quality = "128k",
                                   !.output_directory = "music",
                                   !.display_progress_bar = FALSE]),
    UserFile([audio_quality |-> "9999k"]) >>

\* the keyword arguments update_config is called with
Updates == <<
    [audio_quality |-> "9999k"],
    [audio_quality |-> "192k"],
    [log_level |-> "debug"],
    [log_level |-> "verbose"],
    [proxy_url |-> Some("socks5://proxy.local:1080")],
    [proxy_url |-> None],
    [output_directory |-> "music", display_progress_bar |-> FALSE],
    [no_such_field |-> "x"],
    [audio_quality |-> "64k", no_such_field |-> "x"],
    [copy |-> "x"],
    [output_directory |-> "music", dict |-> "x"] >>

NoCmCall == [fn |-> "none", kwargs |-> <<>>, raised |-> "",
             pre |-> [file |-> AbsentFile, cfg |-> None], prior |-> None, loaded |-> None]

\* the record of a call made in the current state: what it was, what it
\* raised, the file and _config it found (pre), the record the last
\* load_config returned if no update_config came since, before the call
\* (prior) and after it (loaded)
CmCall(fn, kwargs, raised, loaded) ==
    [fn |-> fn, kwargs |-> kwargs, raised |-> raised,
     pre |-> [file |-> file, cfg |-> cfg], prior |-> cmCall.loaded, loaded |-> loaded]

\* the session before main() runs
IdleSession ==
    /\ pc = "start"
    /\ svc = None
    /\ dirs = {}
    /\ playlist_url = ""
    /\ playlist_info = None
    /\ log = <<>>
    /\ fault = ""

CM_load_config ==
    LET r == load_config(file)
    IN  /\ file' = r.file
        /\ cfg' = IF r.raised = "" THEN Some(r.config) ELSE cfg
        /\ cmCall' = CmCall("load_config", <<>>, r.raised,
                             IF r.raised = "" THEN Some(r.config) ELSE cmCall.loaded)
        /\ UNCHANGED <<urlVars, cliVars>>

\* the config property: load_config when nothing is loaded yet
CM_config ==
    LET r == load_config(file)
    IN  /\ file' = IF cfg = None THEN r.file ELSE file
        /\ cfg' = IF cfg = None /\ r.raised = "" THEN Some(r.config) ELSE cfg
        /\ cmCall' = CmCall("config", <<>>, IF cfg = None THEN r.raised ELSE "",
                             IF cfg = None /\ r.raised = "" THEN Some(r.config)
                             ELSE cmCall.loaded)
        /\ UNCHANGED <<urlVars, cliVars>>

\* save_config(self.config) by a caller that holds the loaded record
CM_save_config ==
    /\ cfg # None
    /\ file' = save_config(cfg[1])
    /\ cmCall' = CmCall("save_config", <<>>, "", cmCall.loaded)
    /\ UNCHANGED <<cfg, urlVars, cliVars>>

CM_update_config(kwargs) ==
    LET r == update_config(file, cfg, kwargs)
    IN  /\ file' = r.file
        /\ cfg' = r.cfg
        /\ cmCall' = CmCall("update_config", kwargs, r.raised, None)
        /\ UNCHANGED <<urlVars, cliVars>>

CM_update_config_any == \E i \in 1..Len(Updates) : CM_update_config(Updates[i])

---------------------------------------------------------------------------
(* The arguments the validator is exercised on: every concatenation of a   *)
(* scheme, a host, a path, an identifier and a tail, and two degenerate    *)
(* arguments (the empty string and a value that is not a string).          *)

\* identifiers are the prefixes of FullId of the lengths around IdThreshold, up
\* to this length, and three fixed ones
MaxIdLen == 11

FullId == "PL1234567890ABCDEF"

Schemes == {"https://", ""}

Hosts == {"www.youtube.com", "youtube.com", "youtu.be", "music.youtube.com",
          "www.example.com", "WWW.YouTube.com"}

Paths == {"/playlist?list=", "/watch?v=", "/", "/channel/", "/user/", "/c/", "/embed/"}

Ids == {SubSeq(FullId, 1, n) : n \in (IdThreshold - 1)..MaxIdLen}
         \cup {"", FullId, "my-playlist1"}

Tails == {"", "&list=" \o FullId, "&list=PLshort", "&u=youtu.be/" \o FullId}

Urls == {sc \o h \o p \o i \o t : sc \in Schemes, h \in Hosts, p \in Paths,
                                  i \in Ids, t \in Tails}

UrlArgs == {None, Some("")} \cup {Some(u) : u \in Urls}

Proxies == {"ftp://proxy.local:8080", "socks5://proxy.local:1080",
            "http://127.0.0.1:8080", "HTTPS://proxy.local", "socks4://10.0.0.1:9",
            "proxy.local:8080", "socks5://", "//proxy.local", "socks5:proxy.local"}

ProxyArgs == {None, Some("")} \cup {Some(u) : u \in Proxies}

NoCall == [fn |-> "none"]

---------------------------------------------------------------------------
(* The validator exercised as a library: one argument, drawn at the start, *)
(* and one action per public method, applied to it once.                   *)

Call_is_valid_url ==
    /\ call = NoCall
    /\ call' = [fn |-> "is_valid_url", ret |-> is_valid_url(url)]
    /\ UNCHANGED <<url, cmVars, cliVars>>

Call_is_youtube_url ==
    /\ call = NoCall
    /\ call' = [fn |-> "is_youtube_url", ret |-> is_youtube_url(url)]
    /\ UNCHANGED <<url, cmVars, cliVars>>

Call_is_playlist_url ==
    /\ call = NoCall
    /\ call' = [fn |-> "is_playlist_url", ret |-> is_playlist_url(url)]
    /\ UNCHANGED <<url, cmVars, cliVars>>

Call_get_url_type ==
    /\ call = NoCall
    /\ call' = [fn |-> "get_url_type", ret |-> get_url_type(url)]
    /\ UNCHANGED <<url, cmVars, cliVars>>

Call_validate_url ==
    /\ call = NoCall
    /\ call' = [fn |-> "validate_url", ret |-> validate_url(url)]
    /\ UNCHANGED <<url, cmVars, cliVars>>

Call_extract_playlist_id ==
    /\ call = NoCall
    /\ IsStr(url)
    /\ call' = [fn |-> "extract_playlist_id", ret |-> extract_playlist_id(url)]
    /\ UNCHANGED <<url, cmVars, cliVars>>

Call_validate_proxy_url ==
    /\ call = NoCall
    /\ call' = [fn |-> "validate_proxy_url", ret |-> validate_proxy_url(url)]
    /\ UNCHANGED <<url, cmVars, cliVars>>

InitValidator ==
    /\ url \in UrlArgs \cup ProxyArgs
    /\ call = NoCall
    /\ file = AbsentFile /\ cfg = None /\ cmCall = NoCmCall
    /\ IdleSession

NextValidator ==
    \/ Call_is_valid_url
    \/ Call_is_youtube_url
    \/ Call_is_playlist_url
    \/ Call_get_url_type
    \/ Call_validate_url
    \/ Call_extract_playlist_id
    \/ Call_validate_proxy_url

SpecValidator == InitValidator /\ [][NextValidator]_vars

InitConfig ==
    /\ \E i \in 1..Len(InitFiles) : file = InitFiles[i]
    /\ cfg = None
    /\ cmCall = NoCmCall
    /\ url = None /\ call = NoCall
    /\ IdleSession

NextConfig ==
    \/ CM_load_config
    \/ CM_config
    \/ CM_save_config
    \/ CM_update_config_any

SpecConfig == InitConfig /\ [][NextConfig]_vars

---------------------------------------------------------------------------
(* What the environment feeds a session: the text typed at each prompt and *)
(* what the engine does when it is called.                                 *)

ProxyInputs == {"", "none", "socks5://proxy.local:1080", "ftp://proxy.local:8080"}

DirInputs == {"", "music"}

QualityInputs == {"", "128K", "9999k"}

ProgressInputs == {"", "no", "y"}

UrlInputs == {"", "not-a-url", "https://www.example.com/watch?v=abc",
              "https://www.youtube.com/", "https://youtu.be/" \o FullId,
              "https://www.youtube.com/playlist?list=" \o FullId}

EmptyDict ==
    [entries |-> Absent, id |-> Absent, title |-> Absent, uploader |-> Absent,
     description |-> Absent, duration |-> Absent, webpage_url |-> Absent, url |-> Absent]

Entry1 == [EmptyDict EXCEPT !.id = Val("v1"), !.title = Val("One"),
                            !.duration = Val(200), !.uploader = Val("Artist"),
                            !.webpage_url = Val("https://youtu.be/v1")]

Entry2 == [EmptyDict EXCEPT !.id = Val("v2"), !.url = Val("https://youtu.be/v2")]

EntryNullTitle == [EmptyDict EXCEPT !.id = Val("v3"), !.title = Null]

Collection(entries) ==
    [EmptyDict EXCEPT !.entries = entries, !.id = Val(FullId), !.title = Val("Mix"),
                      !.description = Val("A playlist")]

\* the dicts extract_info may return
Responses == <<
    EmptyDict,
    [EmptyDict EXCEPT !.id = Val("abc"), !.title = Val("Song"), !.duration = Val(200),
                      !.uploader = Val("Artist"), !.description = Val("About the song")],
    [EmptyDict EXCEPT !.id = Val("abc")],
    [EmptyDict EXCEPT !.id = Null, !.title = Val("Song")],
    Collection(Val(<<Some(Entry1), Some(Entry2)>>)),
    Collection(Val(<<Some(Entry1), None, Some(Entry2), Some(EmptyDict)>>)),
    Collection(Val(<<Some(Entry1), Some(EntryNullTitle)>>)),
    Collection(Val(<<>>)),
    Collection(Null),
    [Collection(Val(<<Some(Entry2)>>)) EXCEPT !.id = Null] >>

Raises == <<"DownloadError", "Exception", "KeyboardInterrupt">>

\* what a call of extract_info may do
ExtractOutcomes ==
    {<<"raise", Raises[i]>> : i \in 1..Len(Raises)}
    \cup {<<"return", None>>}
    \cup {<<"return", Some(Responses[i])>> : i \in 1..Len(Responses)}

\* what a call of ydl.download may do
DownloadOutcomes ==
    {<<"raise", Raises[i]>> : i \in 1..Len(Raises)} \cup {<<"return", None>>}

\* Prompt.ask(message, default=default): the default for an empty entry
get_user_input_with_default(typed, default) == IF typed = "" THEN default ELSE typed

---------------------------------------------------------------------------
(* The session: main() builds the CLI, run() walks the user through the    *)
(* setup prompts, the URL prompt, extraction, confirmation and download.   *)

\* self.config of the CLI: the record the manager holds (the same object)
Config == cfg[1]

Logged(event) == log' = Append(log, event)

\* config_manager.update_config(**kwargs) from within the session
SessionUpdate(kwargs) ==
    LET r == update_config(file, cfg, kwargs)
    IN  /\ file' = r.file
        /\ cfg' = r.cfg
        /\ cmCall' = CmCall("update_config", kwargs, r.raised, None)

\* main() up to run(): the logs directory, then CLI.__init__: the manager's
\* config property, YouTubeService(self.config.dict()), AudioDownloader's
\* output directory
Main_CLI_init ==
    /\ pc = "start"
    /\ LET r == load_config(file)
       IN  /\ file' = r.file
           /\ cmCall' = CmCall("config", <<>>, r.raised,
                                IF r.raised = "" THEN Some(r.config) ELSE cmCall.loaded)
           /\ IF r.raised # ""
              THEN /\ pc' = "exit"
                   /\ fault' = r.raised
                   /\ dirs' = dirs \cup {"logs"}
                   /\ UNCHANGED <<cfg, svc>>
              ELSE /\ pc' = "proxy"
                   /\ cfg' = Some(r.config)
                   /\ svc' = Some(r.config)
                   /\ dirs' = dirs \cup {"logs", r.config.output_directory}
                   /\ UNCHANGED fault
    /\ UNCHANGED <<urlVars, playlist_url, playlist_info, log>>

\* a faulty variant of Setup_proxy: the entry is stored without validation
Setup_proxy_unvalidated(typed) ==
    /\ pc = "proxy"
    /\ LET current_proxy == IF Truthy(Config.proxy_url) THEN Config.proxy_url[1] ELSE "None"
           proxy_input == get_user_input_with_default(typed, current_proxy)
       IN  IF Lower(proxy_input) = "none" \/ proxy_input = ""
           THEN SessionUpdate([proxy_url |-> None])
           ELSE IF proxy_input # current_proxy
           THEN SessionUpdate([proxy_url |-> Some(proxy_input)])
           ELSE UNCHANGED cmVars
    /\ pc' = "output_dir"
    /\ UNCHANGED <<urlVars, svc, dirs, playlist_url, playlist_info, log, fault>>

\* the proxy prompt of _interactive_config_setup
Setup_proxy(typed) ==
    /\ pc = "proxy"
    /\ LET current_proxy == IF Truthy(Config.proxy_url) THEN Config.proxy_url[1] ELSE "None"
           proxy_input == get_user_input_with_default(typed, current_proxy)
       IN  IF Lower(proxy_input) = "none" \/ proxy_input = ""
           THEN SessionUpdate([proxy_url |-> None])
           ELSE IF proxy_input # current_proxy /\ validate_proxy_url(Some(proxy_input))
           THEN SessionUpdate([proxy_url |-> Some(proxy_input)])
           ELSE UNCHANGED cmVars
    /\ pc' = "output_dir"
    /\ UNCHANGED <<urlVars, svc, dirs, playlist_url, playlist_info, log, fault>>

\* the output directory prompt
Setup_output_dir(typed) ==
    /\ pc = "output_dir"
    /\ LET current_output_dir == Config.output_directory
           output_dir_input == get_user_input_with_default(typed, current_output_dir)
       IN  IF output_dir_input # current_output_dir
           THEN SessionUpdate([output_directory |-> output_dir_input])
           ELSE UNCHANGED cmVars
    /\ pc' = "quality"
    /\ UNCHANGED <<urlVars, svc, dirs, playlist_url, playlist_info, log, fault>>

\* self.config_manager.config.copy(update={...}): the copy takes the update
\* as it is, no validator runs
copy_update(config, update) ==
    [f \in DOMAIN config |-> IF f \in DOMAIN update THEN update[f] ELSE config[f]]

\* the audio quality prompt
Setup_quality(typed) ==
    /\ pc = "quality"
    /\ LET current_audio_quality == Config.audio_quality
           audio_quality_input ==
               Lower(get_user_input_with_default(typed, current_audio_quality))
           temp_config == copy_update(Config, [audio_quality |-> audio_quality_input])
       IN  SessionUpdate([audio_quality |-> temp_config.audio_quality])
    /\ pc' = "progress"
    /\ UNCHANGED <<urlVars, svc, dirs, playlist_url, playlist_info, log, fault>>

\* the progress bar prompt
Setup_progress(typed) ==
    /\ pc = "progress"
    /\ LET current == IF Config.display_progress_bar THEN "yes" ELSE "no"
           input == Lower(get_user_input_with_default(typed, current))
           new_value == input \in {"yes", "y", "1", "true"}
       IN  IF new_value # Config.display_progress_bar
           THEN SessionUpdate([display_progress_bar |-> new_value])
           ELSE UNCHANGED cmVars
    /\ pc' = "url"
    /\ UNCHANGED <<urlVars, svc, dirs, playlist_url, playlist_info, log, fault>>

\* show_error_message(error)
ErrorShown(error) == [ev |-> "error", error |-> error]

\* run(): the URL prompt, the empty check and validator.validate_url
Run_enter_url(typed) ==
    /\ pc = "url"
    /\ playlist_url' = typed
    /\ LET r == validate_url(Some(typed))
       IN  IF typed = ""
           THEN /\ Logged(ErrorShown("No URL provided. Please restart the application."))
                /\ pc' = "done"
           ELSE IF ~r.ok
           THEN /\ log' = log \o <<[ev |-> "validate_url", ok |-> FALSE],
                                   ErrorShown("Invalid URL: " \o r.msg)>>
                /\ pc' = "done"
           ELSE /\ Logged([ev |-> "validate_url", ok |-> TRUE])
                /\ pc' = "extract"
    /\ UNCHANGED <<urlVars, cmVars, svc, dirs, playlist_info, fault>>

\* run(): youtube_service.get_playlist_info(playlist_url), the engine doing
\* `outcome` when extract_info is called with the extractor's options
Run_get_playlist_info(outcome) ==
    /\ pc = "extract"
    /\ LET r == extract_playlist_info(outcome, playlist_url)
           called == [ev |-> "extract_info", url |-> playlist_url,
                      opts |-> get_ydl_options(svc[1]),
                      exc |-> IF outcome[1] = "raise" THEN outcome[2] ELSE "",
                      info |-> IF outcome[1] = "raise" THEN None ELSE outcome[2]]
       IN  IF r.raised # ""
           THEN /\ Logged(called)
                /\ pc' = "exit"
                /\ fault' = r.raised
                /\ UNCHANGED playlist_info
           ELSE IF r.ret = None
           THEN /\ log' = log \o <<called, [ev |-> "extracted", found |-> FALSE],
                      ErrorShown("Could not retrieve playlist information. Please check the URL and try again.")>>
                /\ pc' = "done"
                /\ UNCHANGED <<playlist_info, fault>>
           ELSE /\ log' = log \o <<called, [ev |-> "extracted", found |-> TRUE]>>
                /\ playlist_info' = r.ret
                /\ pc' = "confirm"
                /\ UNCHANGED fault
    /\ UNCHANGED <<urlVars, cmVars, svc, dirs, playlist_url>>

\* a faulty variant of Run_confirm: the answer is asked for and not heeded
Run_confirm_unheeded(answer) ==
    /\ pc = "confirm"
    /\ log' = log \o <<[ev |-> "confirm", answer |-> answer],
                        [ev |-> "download_started",
                         destination |-> Config.output_directory,
                         quality |-> Config.audio_quality,
                         videos |-> playlist_info[1].video_count]>>
    /\ pc' = "download"
    /\ UNCHANGED <<urlVars, cmVars, svc, dirs, playlist_url, playlist_info, fault>>

\* run(): confirm_download_prompt(), then the "Download Started" panel or
\* the "Cancelled" panel
Run_confirm(answer) ==
    /\ pc = "confirm"
    /\ IF answer
       THEN /\ log' = log \o <<[ev |-> "confirm", answer |-> TRUE],
                               [ev |-> "download_started",
                                destination |-> Config.output_directory,
                                quality |-> Config.audio_quality,
                                videos |-> playlist_info[1].video_count]>>
            /\ pc' = "download"
       ELSE /\ log' = log \o <<[ev |-> "confirm", answer |-> FALSE],
                               [ev |-> "cancelled"]>>
            /\ pc' = "done"
    /\ UNCHANGED <<urlVars, cmVars, svc, dirs, playlist_url, playlist_info, fault>>

\* a faulty variant of Run_download_playlist: a download that returns false
\* is tried again
Run_download_playlist_retrying(outcome) ==
    /\ pc = "download"
    /\ LET r == download(outcome)
           called == [ev |-> "download", url |-> playlist_url,
                      opts |-> configure_ydl_options(svc[1], FALSE),
                      exc |-> IF outcome[1] = "raise" THEN outcome[2] ELSE ""]
       IN  IF r.raised # ""
           THEN /\ Logged(called)
                /\ pc' = "exit"
                /\ fault' = r.raised
           ELSE IF ~r.ret[1]
           THEN /\ log' = log \o <<called, [ev |-> "download_returned", ret |-> FALSE]>>
                /\ UNCHANGED <<pc, fault>>
           ELSE /\ log' = log \o <<called, [ev |-> "download_returned", ret |-> TRUE],
                                   [ev |-> "success", output_dir |-> Config.output_directory]>>
                /\ pc' = "done"
                /\ UNCHANGED fault
    /\ UNCHANGED <<urlVars, cmVars, svc, dirs, playlist_url, playlist_info>>

\* run(): youtube_service.download_playlist(playlist_url), the engine doing
\* `outcome` when download is called with the downloader's options, then
\* show_success_message(self.config.output_directory)
Run_download_playlist(outcome) ==
    /\ pc = "download"
    /\ LET r == download(outcome)
           called == [ev |-> "download", url |-> playlist_url,
                      opts |-> configure_ydl_options(svc[1], FALSE),
                      exc |-> IF outcome[1] = "raise" THEN outcome[2] ELSE ""]
       IN  IF r.raised # ""
           THEN /\ Logged(called)
                /\ pc' = "exit"
                /\ fault' = r.raised
           ELSE /\ log' = log \o <<called, [ev |-> "download_returned", ret |-> r.ret[1]],
                                   [ev |-> "success", output_dir |-> Config.output_directory]>>
                /\ pc' = "done"
                /\ UNCHANGED fault
    /\ UNCHANGED <<urlVars, cmVars, svc, dirs, playlist_url, playlist_info>>

Setup_proxy_any == \E typed \in ProxyInputs : Setup_proxy(typed)

Setup_output_dir_any == \E typed \in DirInputs : Setup_output_dir(typed)

Setup_quality_any == \E typed \in QualityInputs : Setup_quality(typed)

Setup_progress_any == \E typed \in ProgressInputs : Setup_progress(typed)

Run_enter_url_any == \E typed \in UrlInputs : Run_enter_url(typed)

Run_get_playlist_info_any == \E outcome \in ExtractOutcomes : Run_get_playlist_info(outcome)

Run_confirm_any == \E answer \in BOOLEAN : Run_confirm(answer)

Run_download_playlist_any == \E outcome \in DownloadOutcomes : Run_download_playlist(outcome)

\* a session starts from any of the configuration files
Init ==
    /\ url = Some("")
    /\ call = NoCall
    /\ \E i \in 1..Len(InitFiles) : file = InitFiles[i]
    /\ cfg = None
    /\ cmCall = NoCmCall
    /\ IdleSession

Next ==
    \/ Main_CLI_init
    \/ Setup_proxy_any
    \/ Setup_output_dir_any
    \/ Setup_quality_any
    \/ Setup_progress_any
    \/ Run_enter_url_any
    \/ Run_get_playlist_info_any
    \/ Run_confirm_any
    \/ Run_download_playlist_any

Spec == Init /\ [][Next]_vars

---------------------------------------------------------------------------
(* The options builders exercised as a library: AudioDownloader and        *)
(* InfoExtractor built with a configuration dict, and the options computed *)
(* from it once.                                                           *)

Indexes == {None, Some(0), Some(1), Some(5)}

\* the dicts the builders are exercised on: DownloadConfig(...).dict() for
\* every choice of the fields the builders read
OptionConfigs ==
    {[DefaultConfig EXCEPT !.download_start_index = s, !.download_end_index = e,
                           !.embed_thumbnail = t, !.add_metadata = m,
                           !.proxy_url = p, !.audio_quality = q,
                           !.display_progress_bar = b] :
        s \in Indexes, e \in Indexes, t \in BOOLEAN, m \in BOOLEAN,
        p \in {None, Some("socks5://proxy.local:1080")},
        q \in {"320k", "128k"}, b \in BOOLEAN}

\* AudioDownloader(config)._configure_ydl_options(dry_run)
Call_configure_ydl_options(dry_run) ==
    /\ call = NoCall
    /\ call' = [fn |-> "configure_ydl_options", dry_run |-> dry_run,
                ret |-> configure_ydl_options(cfg[1], dry_run)]
    /\ UNCHANGED <<url, cmVars, cliVars>>

Call_configure_ydl_options_any == \E dry_run \in BOOLEAN : Call_configure_ydl_options(dry_run)

\* InfoExtractor(config)._get_ydl_options()
Call_get_ydl_options ==
    /\ call = NoCall
    /\ call' = [fn |-> "get_ydl_options", ret |-> get_ydl_options(cfg[1])]
    /\ UNCHANGED <<url, cmVars, cliVars>>

InitOptions ==
    /\ url = Some("")
    /\ call = NoCall
    /\ file = AbsentFile
    /\ cfg \in {Some(c) : c \in OptionConfigs}
    /\ cmCall = NoCmCall
    /\ IdleSession

NextOptions ==
    \/ Call_configure_ydl_options_any
    \/ Call_get_ydl_options

SpecOptions == InitOptions /\ [][NextOptions]_vars

---------------------------------------------------------------------------
(* Claims about the validator, checked under SpecValidator.                *)

Called(fn) == call.fn = fn

\* the parts of the argument the claims speak of
Authority(x) == Lower(urlparse_netloc(Str(x)))

WellFormed(x) == urlparse_scheme(Str(x)) # "" /\ urlparse_netloc(Str(x)) # ""

Classifications == {"playlist", "video", "channel"}

\* C7: validate_url reports the first failing condition in the fixed order
\* empty/non-string, not well-formed, not a supported site, unknown
\* classification; it succeeds exactly when none of the four fails, and the
\* success message then names the classification.
C7_FirstFailingCondition ==
    Called("validate_url") =>
        LET r == call.ret
            empty == ~IsStr(url) \/ Str(url) = ""
            malformed == ~empty /\ ~WellFormed(url)
            foreign == ~empty /\ ~malformed /\ Authority(url) \notin youtube_domains
            unknown == ~empty /\ ~malformed /\ ~foreign /\ get_url_type(url) = "unknown"
        IN  /\ empty => r = [ok |-> FALSE, msg |-> MsgEmpty]
            /\ malformed => r = [ok |-> FALSE, msg |-> MsgFormat]
            /\ foreign => r = [ok |-> FALSE, msg |-> MsgNotYoutube]
            /\ unknown => r = [ok |-> FALSE, msg |-> MsgUnknownType]
            /\ r.ok <=> ~(empty \/ malformed \/ foreign \/ unknown)
            /\ r.ok => /\ get_url_type(url) \in Classifications
                       /\ r.msg = "Valid " \o get_url_type(url) \o " URL"

\* a URL that fails two conditions at once (foreign site and unknown type) and
\* is reported with the earlier one
C7_Witness ==
    /\ Called("validate_url")
    /\ IsStr(url) /\ Str(url) # ""
    /\ WellFormed(url)
    /\ Authority(url) \notin youtube_domains
    /\ get_url_type(url) = "unknown"
    /\ call.ret = [ok |-> FALSE, msg |-> MsgNotYoutube]

\* a string whose authority (possibly empty) is not in the allow-list
ForeignAuthority(x) == IsStr(x) /\ Authority(x) \notin youtube_domains

\* C8 as stated: for every URL whose authority is not in the allow-list,
\* get_url_type returns 'unknown' and validate_url returns (false, reason)
\* with the unknown-type reason.  (Read of the URLs that have an authority.)
C8_UnknownTypeReason ==
    (ForeignAuthority(url) /\ WellFormed(url)) =>
        /\ Called("get_url_type") => call.ret = "unknown"
        /\ Called("validate_url") => call.ret = [ok |-> FALSE, msg |-> MsgUnknownType]

\* C8 amended: for every URL whose authority is not in the allow-list,
\* whatever its path and query, get_url_type returns 'unknown' and
\* validate_url returns (false, reason) where the reason is that of the
\* earlier check that fails: empty, not well-formed, or not a supported site.
C8_ForeignAuthorityRejected ==
    ForeignAuthority(url) =>
        /\ Called("get_url_type") => call.ret = "unknown"
        /\ Called("validate_url") =>
               call.ret = [ok |-> FALSE,
                           msg |-> IF Str(url) = "" THEN MsgEmpty
                                   ELSE IF ~WellFormed(url) THEN MsgFormat
                                   ELSE MsgNotYoutube]

\* a well-formed foreign URL with a playlist-shaped path and query
C8_Witness ==
    /\ Called("validate_url")
    /\ ForeignAuthority(url)
    /\ WellFormed(url)
    /\ Contains(Str(url), "/playlist?list=" \o FullId)
    /\ call.ret = [ok |-> FALSE, msg |-> MsgNotYoutube]

ExampleComPlaylist == "https://www.example.com/playlist?list=" \o FullId

YoutubePlaylist == "https://www.youtube.com/playlist?list=" \o FullId

\* every group any pattern captures in s has at most IdThreshold characters
AllGroupsShort(s) ==
    \A k \in 1..Len(youtube_patterns) :
        LET m == re_search(youtube_patterns[k], s)
        IN  m # None =>
                \A g \in 1..Len(m[1]) :
                    m[1][g] # None => Len(m[1][g][1]) <= IdThreshold

\* C9 as stated: extract_playlist_id of the example.com playlist URL is
\* PL1234567890ABCDEF, and of a URL whose captured groups all have length at
\* most 10 is None.
C9_ExampleComReturnsId ==
    Called("extract_playlist_id") =>
        /\ url = Some(ExampleComPlaylist) => call.ret = Some(FullId)
        /\ AllGroupsShort(Str(url)) => call.ret = None

\* C9 amended: extract_playlist_id of
\* https://www.youtube.com/playlist?list=PL1234567890ABCDEF is
\* PL1234567890ABCDEF (of the same URL on www.example.com it is None: no
\* pattern matches that host), and of a URL whose captured groups all have
\* length at most 10 it is None.
C9_YoutubeReturnsId ==
    Called("extract_playlist_id") =>
        /\ url = Some(YoutubePlaylist) => call.ret = Some(FullId)
        /\ url = Some(ExampleComPlaylist) => call.ret = None
        /\ AllGroupsShort(Str(url)) => call.ret = None

C9_Witness ==
    /\ Called("extract_playlist_id")
    /\ url = Some(YoutubePlaylist)
    /\ call.ret = Some(FullId)

\* the identifiers that follow a "list=" in s
ListIds(s) ==
    {SubSeq(s, i + 5, i + 4 + IdRun(s, i + 5)) :
        i \in {j \in 1..Len(s) : StartsWithAt(s, j, "list=") /\ IdRun(s, j + 5) > 0}}

\* C10: extract_playlist_id returns a value only for a URL that carries a
\* playlist (list=) identifier, and the value is that identifier, never the
\* identifier of a video, a channel or a user.
C10_OnlyPlaylistIds ==
    (Called("extract_playlist_id") /\ call.ret # None) =>
        call.ret[1] \in ListIds(Str(url))

\* s starts with one of the four schemes, in any case, followed by "://" and
\* at least one character of authority
HasProxyShape(s) ==
    \E sch \in {"http", "https", "socks4", "socks5"} :
        /\ StartsWithAt(Lower(s), 1, sch \o "://")
        /\ Len(s) > Len(sch) + 3
        /\ Char(s, Len(sch) + 4) \notin {"/", "?", "#"}

\* C17: validate_proxy_url returns true exactly when the string has a scheme
\* of http, https, socks4, socks5 (in any case) and a non-empty authority;
\* ftp://proxy.local:8080 gives false, socks5://proxy.local:1080 gives true.
C17_ProxySchemeAndAuthority ==
    Called("validate_proxy_url") =>
        /\ call.ret = (IsStr(url) /\ HasProxyShape(Str(url)))
        /\ url = Some("ftp://proxy.local:8080") => call.ret = FALSE
        /\ url = Some("socks5://proxy.local:1080") => call.ret = TRUE

C17_Witness ==
    /\ Called("validate_proxy_url")
    /\ url = Some("HTTPS://proxy.local")
    /\ call.ret = TRUE

\* what follows the authority of a well-formed URL, its path and its query
AfterAuthority(s) == From(s, SchemeEnd(s) + 3 + Len(urlparse_netloc(s)))

PathOf(s) ==
    LET rest == AfterAuthority(s)
        q == Find(rest, "?")
    IN  IF q = 0 THEN rest ELSE SubSeq(rest, 1, q - 1)

QueryOf(s) ==
    LET rest == AfterAuthority(s)
        q == Find(rest, "?")
    IN  IF q = 0 THEN "" ELSE From(rest, q + 1)

\* the query holds a parameter of this name
HasParam(s, name) ==
    \/ StartsWithAt(QueryOf(s), 1, name \o "=")
    \/ Contains(QueryOf(s), "&" \o name \o "=")

\* the path holds this segment
HasSegment(s, seg) == Contains(PathOf(s) \o "/", "/" \o seg \o "/")

\* the classification by the parts of the URL
StructuralType(s) ==
    IF HasParam(s, "list") \/ HasSegment(s, "playlist") THEN "playlist"
    ELSE IF HasParam(s, "v") \/ Lower(urlparse_netloc(s)) = "youtu.be" THEN "video"
    ELSE IF Contains(PathOf(s), "/channel/") \/ Contains(PathOf(s), "/user/")
            \/ Contains(PathOf(s), "/c/") THEN "channel"
    ELSE "unknown"

\* C18: for a supported-site URL get_url_type returns 'playlist' exactly when
\* the URL has a list query parameter or the path segment playlist, else
\* 'video' exactly when it has a watch query parameter or is a short-link
\* path, else 'channel' exactly when it has a channel/, user/ or /c/ path
\* segment, else 'unknown'; text elsewhere in the URL (the word playlist
\* inside a video id or a query value) does not change the classification.
C18_ClassifiedByStructure ==
    (Called("get_url_type") /\ is_youtube_url(url)) =>
        call.ret = StructuralType(Str(url))

\* the patterns, by index, that match s, and those of them whose match holds
\* a group longer than IdThreshold
Matching(s) == {k \in 1..Len(youtube_patterns) : re_search(youtube_patterns[k], s) # None}

Productive(s) ==
    {k \in Matching(s) : FirstLongGroup(re_search(youtube_patterns[k], s)[1]) # None}

Least(S) == CHOOSE k \in S : \A m \in S : k <= m

\* C11 as stated: the first pattern, in list order, that matches the URL
\* decides the result of extract_playlist_id; no later pattern is consulted.
C11_FirstMatchDecides ==
    Called("extract_playlist_id") =>
        call.ret = IF Matching(Str(url)) = {} THEN None
                   ELSE FirstLongGroup(
                            re_search(youtube_patterns[Least(Matching(Str(url)))], Str(url))[1])

\* C11, amended: the first pattern, in list order, that matches the URL with
\* a group longer than 10 characters decides the result; a pattern that
\* matches with short groups only is passed over and later ones are tried.
C11_FirstLongMatchDecides ==
    Called("extract_playlist_id") =>
        call.ret = IF Productive(Str(url)) = {} THEN None
                   ELSE FirstLongGroup(
                            re_search(youtube_patterns[Least(Productive(Str(url)))], Str(url))[1])

C11_Witness ==
    /\ Called("extract_playlist_id")
    /\ Productive(Str(url)) # {}
    /\ Least(Matching(Str(url))) < Least(Productive(Str(url)))
    /\ call.ret # None

---------------------------------------------------------------------------
(* Claims about the configuration manager, checked under SpecConfig.       *)

ValidRecord(config) ==
    /\ config.audio_quality \in valid_qualities
    /\ config.log_level \in valid_levels

\* the last call was update_config with an audio quality outside the set
UpdatedWithInvalidQuality ==
    /\ cmCall.fn = "update_config"
    /\ "audio_quality" \in DOMAIN cmCall.kwargs
    /\ cmCall.kwargs.audio_quality \notin valid_qualities

\* C1: update_config with an audio_quality outside the allowed set fails with
\* an error and the program does not write the invalid value to the file.
C1_InvalidQualityRejected ==
    UpdatedWithInvalidQuality =>
        /\ cmCall.raised # ""
        /\ ~(file.kind = "doc" /\ file.written
             /\ file.doc.audio_quality \notin valid_qualities)

\* C2: in every state reached by load, update and save calls, the record in
\* memory and the document the program wrote hold an audio_quality of the
\* allowed set and a log_level of the upper-case allowed set.
C2_ConfigAlwaysValid ==
    /\ cfg # None => ValidRecord(cfg[1])
    /\ (file.kind = "doc" /\ file.written) => ValidRecord(file.doc)

\* C14: two load_config calls with no update_config between them return
\* records with identical field values, for every document that loads,
\* one with a lower-case log_level included.
C14_LoadIdempotent ==
    (cmCall.fn = "load_config" /\ cmCall.raised = "" /\ cmCall.prior # None) =>
        /\ cfg # None
        /\ cfg[1] = cmCall.prior[1]
        /\ cmCall.loaded = cfg

C14_Witness ==
    /\ cmCall.fn = "load_config"
    /\ cmCall.raised = ""
    /\ cmCall.prior # None
    /\ ~cmCall.pre.file.written
    /\ "log_level" \in DOMAIN cmCall.pre.file.doc
    /\ cmCall.pre.file.doc.log_level = "debug"
    /\ cfg[1].log_level = "DEBUG"

\* C15: when the file does not exist, load_config persists a document of the
\* field defaults and returns a record equal to the defaults; afterwards the
\* file exists and a further load_config returns the same record.
C15_DefaultsCreated ==
    (cmCall.fn = "load_config" /\ cmCall.pre.file.kind = "absent") =>
        /\ cmCall.raised = ""
        /\ file = [kind |-> "doc", doc |-> DefaultConfig, written |-> TRUE]
        /\ cfg = Some(DefaultConfig)
        /\ load_config(file).raised = ""
        /\ load_config(file).config = cfg[1]
        /\ load_config(file).file = file

C15_Witness ==
    /\ cmCall.fn = "load_config"
    /\ cmCall.pre.file.kind = "absent"
    /\ file.kind = "doc"
    /\ file.written

\* the record update_config starts from: _config, or what load_config gives
\* when nothing is loaded yet
UpdateBase == IF cmCall.pre.cfg # None THEN cmCall.pre.cfg[1]
              ELSE load_config(cmCall.pre.file).config

\* C16 as stated: update_config changes exactly the named fields that exist on the
\* record, leaves every other field as it was, ignores names that are not
\* fields, and persists the full record: the document equals the record.
C16_UpdateFrame ==
    (/\ cmCall.fn = "update_config"
     /\ (cmCall.pre.cfg # None \/ load_config(cmCall.pre.file).raised = "")) =>
        /\ cmCall.raised = ""
        /\ cfg # None
        /\ DOMAIN cfg[1] = Fields
        /\ \A f \in Fields :
               cfg[1][f] = IF f \in DOMAIN cmCall.kwargs THEN cmCall.kwargs[f]
                           ELSE UpdateBase[f]
        /\ file.kind = "doc"
        /\ file.written
        /\ file.doc = cfg[1]

---------------------------------------------------------------------------
(* Claims about the session, checked under Spec.                           *)

Events(ev) == {i \in 1..Len(log) : log[i].ev = ev}

\* C3: the engine parameters of the download (proxy, output directory, audio
\* quality, progress display) are those of the configuration record as it
\* stands when the download is invoked, and the directory of that record is
\* the one that was created.
C3_DownloadUsesCurrentConfig ==
    \A i \in Events("download") :
        LET current == configure_ydl_options(Config, FALSE)
        IN  /\ log[i].opts.proxy = current.proxy
            /\ log[i].opts.outtmpl = current.outtmpl
            /\ log[i].opts.audioquality = current.audioquality
            /\ log[i].opts.noprogress = current.noprogress
            /\ Config.output_directory \in dirs

\* C4: the engine's download is called only after, in this order,
\* validate_url reported true, the extraction returned a PlaylistInfo and the
\* user confirmed; a session that misses one of them ends without the call.
C4_DownloadOnlyAfterGates ==
    \A i \in Events("download") :
        \E a \in Events("validate_url"), b \in Events("extracted"), c \in Events("confirm") :
            /\ a < b /\ b < c /\ c < i
            /\ log[a].ok
            /\ log[b].found
            /\ log[c].answer

C4_Witness ==
    /\ pc = "done"
    /\ Events("download") # {}
    /\ Events("success") # {}

\* C5: download returns true only when the engine completes without raising;
\* a DownloadError and any other Exception give false and do not leave the
\* method.
C5_DownloadReturnsOutcome ==
    \A i \in Events("download") :
        IsException(log[i].exc) =>
            /\ fault = ""
            /\ i < Len(log)
            /\ log[i + 1].ev = "download_returned"
            /\ log[i + 1].ret = (log[i].exc = "")

C5_Witness ==
    /\ \E i \in Events("download") : log[i].exc = "Exception"
    /\ \E i \in Events("download_returned") : ~log[i].ret

\* the record is a PlaylistInfo: the strings are strings, the count is that
\* of the videos
IsPlaylistInfo(p) ==
    /\ DOMAIN p = {"id", "title", "uploader", "description", "video_count", "videos", "url"}
    /\ p.video_count >= 0
    /\ p.url = playlist_url

\* C6: whatever the engine does at extraction (DownloadError, another
\* Exception, an empty response, a response whose fields do not map), no
\* fault leaves extract_playlist_info: the caller gets None or a PlaylistInfo.
C6_ExtractionNeverFaults ==
    \A i \in Events("extract_info") :
        IsException(log[i].exc) =>
            /\ fault \notin {"DownloadError", "Exception", "ValidationError", "TypeError"}
            /\ i < Len(log)
            /\ log[i + 1].ev = "extracted"
            /\ IF log[i + 1].found
               THEN playlist_info # None /\ IsPlaylistInfo(playlist_info[1])
               ELSE playlist_info = None

C6_Witness ==
    /\ \E i \in Events("extract_info") :
           /\ log[i].exc = ""
           /\ log[i].info = Some(Responses[4])
    /\ Events("extracted") # {}
    /\ playlist_info = None
    /\ fault = ""

---------------------------------------------------------------------------
(* Claims about the options builders, checked under SpecOptions.           *)

\* C12: a playlist range is emitted if and only if download_start_index or
\* download_end_index is set; it is start:end, where start is the configured
\* start index when one is set and 1 only when it is unset, and end is the
\* configured end index when one is set and empty only when it is unset.
C12_PlaylistRange ==
    Called("configure_ydl_options") =>
        LET start_idx == cfg[1].download_start_index
            end_idx == cfg[1].download_end_index
        IN  IF start_idx = None /\ end_idx = None
            THEN call.ret.playlist_items = None
            ELSE call.ret.playlist_items =
                     Some((IF start_idx # None THEN IntToStr(start_idx[1]) ELSE "1")
                          \o ":" \o
                          (IF end_idx # None THEN IntToStr(end_idx[1]) ELSE ""))

\* the positions of the steps of this key in the list pp
Steps(pp, key) == {i \in 1..Len(pp) : pp[i].key = key}

\* C19: the post-processing list starts with exactly one audio-extraction
\* step (mp3 at the configured quality), holds a thumbnail-embedding step if
\* and only if embed_thumbnail is true and a metadata-embedding step if and
\* only if add_metadata is true, the thumbnail step before the metadata step.
C19_Postprocessors ==
    Called("configure_ydl_options") =>
        LET pp == call.ret.postprocessors
        IN  /\ Steps(pp, "FFmpegExtractAudio") = {1}
            /\ pp[1].preferredcodec = "mp3"
            /\ pp[1].preferredquality \o "k" = cfg[1].audio_quality
            /\ (Steps(pp, "EmbedThumbnail") # {}) = cfg[1].embed_thumbnail
            /\ (Steps(pp, "FFmpegMetadata") # {}) = cfg[1].add_metadata
            /\ Cardinality(Steps(pp, "EmbedThumbnail")) <= 1
            /\ Cardinality(Steps(pp, "FFmpegMetadata")) <= 1
            /\ \A i \in Steps(pp, "EmbedThumbnail") :
                   \A j \in Steps(pp, "FFmpegMetadata") : i < j
            /\ Len(pp) = Cardinality(Steps(pp, "FFmpegExtractAudio")
                                      \cup Steps(pp, "EmbedThumbnail")
                                      \cup Steps(pp, "FFmpegMetadata"))

C19_Witness ==
    /\ Called("configure_ydl_options")
    /\ cfg[1].embed_thumbnail
    /\ cfg[1].add_metadata
    /\ cfg[1].audio_quality = "128k"
    /\ Len(call.ret.postprocessors) = 3

---------------------------------------------------------------------------
(* Further claims about the session, checked under Spec.                   *)

\* the engine returned a non-empty response without an entries key
SingleItem(e) ==
    /\ e.exc = ""
    /\ e.info # None
    /\ ~IsEmptyDict(e.info[1])
    /\ e.info[1].entries = Absent

\* the PlaylistInfo p wraps the one item of the response d
WrapsSingle(p, d) ==
    /\ p.video_count = 1
    /\ Len(p.videos) = 1
    /\ p.description = Some("Single video")
    /\ p.id = p.videos[1].id
    /\ p.title = p.videos[1].title
    /\ d.id[1] = "val" => p.id = d.id[2]
    /\ d.title[1] = "val" => p.title = d.title[2]

\* C13 as stated: a non-empty response with no entries key always gives a
\* PlaylistInfo with video_count 1, one video, the description "Single video"
\* and the id and title of the item.
C13_SingleItemWrapped ==
    \A i \in Events("extract_info") :
        SingleItem(log[i]) =>
            /\ playlist_info # None
            /\ WrapsSingle(playlist_info[1], log[i].info[1])

\* C13, amended: such a response gives that PlaylistInfo when neither its id
\* nor its title is null (an absent id is "", an absent title "Unknown");
\* when one of them is null the method returns None.
C13_SingleItemWrappedWhenMappable ==
    \A i \in Events("extract_info") :
        SingleItem(log[i]) =>
            IF log[i].info[1].id = Null \/ log[i].info[1].title = Null
            THEN playlist_info = None /\ ~log[i + 1].found
            ELSE /\ playlist_info # None
                 /\ WrapsSingle(playlist_info[1], log[i].info[1])
                 /\ log[i].info[1].id = Absent => playlist_info[1].id = ""
                 /\ log[i].info[1].title = Absent => playlist_info[1].title = "Unknown"

C13_Witness ==
    \E i \in Events("extract_info") :
        /\ SingleItem(log[i])
        /\ log[i].info[1].description[1] = "val"
        /\ playlist_info # None
        /\ playlist_info[1].video_count = 1

\* the positions of the engine calls in the log
EngineCalls == Events("extract_info") \cup Events("download")

\* C20: in one session the engine is asked to extract at most once and to
\* download at most once; after an extraction that returned None or a
\* download that returned false no further engine call is made.
C20_NoRetries ==
    /\ Cardinality(Events("extract_info")) <= 1
    /\ Cardinality(Events("download")) <= 1
    /\ \A i \in Events("extracted") :
           ~log[i].found => \A j \in EngineCalls : j < i
    /\ \A i \in Events("download_returned") :
           ~log[i].ret => \A j \in EngineCalls : j < i

C20_Witness ==
    /\ pc = "done"
    /\ \E i \in Events("download_returned") : ~log[i].ret
    /\ Cardinality(EngineCalls) = 2

\* C21: the "Download Complete" banner is displayed only after a download
\* call that returned true; a download that returned false is never followed
\* by the banner.
C21_SuccessOnlyAfterTrue ==
    \A i \in Events("success") :
        /\ \E j \in Events("download_returned") : j < i /\ log[j].ret
        /\ \A j \in Events("download_returned") : j < i => log[j].ret

\* the audio quality the setup works with when `typed` is entered
QualityEntry(typed) ==
    Lower(get_user_input_with_default(typed, Config.audio_quality))

\* C22: during setup an audio quality outside the five allowed values leaves
\* the in-memory record and the configuration file as they were, and the
\* file can still be loaded by a later startup.
C22_InvalidQualityKeepsPrevious ==
    [][\A typed \in QualityInputs :
          (Setup_quality(typed) /\ QualityEntry(typed) \notin valid_qualities)
              => /\ cfg' = cfg
                 /\ file' = file
                 /\ load_config(file').raised = ""]_vars

\* what the proxy prompt shows as the current value, and the entry the setup
\* works with when `typed` is entered
CurrentProxy == IF Truthy(Config.proxy_url) THEN Config.proxy_url[1] ELSE "None"

ProxyEntry(typed) == get_user_input_with_default(typed, CurrentProxy)

\* an entry that asks for a proxy and fails validate_proxy_url
RejectedProxyEntry(typed) ==
    /\ Lower(ProxyEntry(typed)) # "none"
    /\ ProxyEntry(typed) # ""
    /\ ~validate_proxy_url(Some(ProxyEntry(typed)))

\* C23: after the proxy step of the setup the stored proxy_url is None, or
\* what it was before the step, or a value validate_proxy_url accepts; an
\* entry that fails the validation changes neither the record nor the file.
C23_ProxyStep ==
    [][\A typed \in ProxyInputs :
          Setup_proxy(typed)
              => /\ \/ cfg'[1].proxy_url = None
                    \/ cfg'[1].proxy_url = cfg[1].proxy_url
                    \/ validate_proxy_url(cfg'[1].proxy_url)
                 /\ \/ (file' = file /\ cfg' = cfg)
                    \/ file'.doc.proxy_url = cfg'[1].proxy_url
                 /\ RejectedProxyEntry(typed) => (cfg' = cfg /\ file' = file)]_vars

\* the proxy step has rejected an entry: it made no update_config call
C23_Witness ==
    /\ pc = "output_dir"
    /\ cmCall.fn = "config"
    /\ cfg[1].proxy_url = None
    /\ file.doc.proxy_url = None

\* the engine call e returned a multi-item response (an entries list)
MultiItem(e) ==
    /\ e.exc = ""
    /\ e.info # None
    /\ e.info[1].entries[1] = "val"

\* the positions of the entries that are not null, and of those the loop
\* keeps (`if entry`)
NonNull(entries) == {k \in 1..Len(entries) : entries[k] # None}

Kept(entries) == {k \in 1..Len(entries) : ~Falsy(entries[k])}

\* the place of the entry at position k among the positions S
Rank(k, S) == Cardinality({j \in S : j <= k})

\* C24: a returned PlaylistInfo has video_count = Len(videos) >= 0; null
\* entries of a multi-item response are skipped and not counted, and the
\* entries that are kept appear in the order of the response.
C24_CountAndOrder ==
    playlist_info # None =>
        LET p == playlist_info[1]
        IN  /\ p.video_count = Len(p.videos)
            /\ p.video_count >= 0
            /\ \A i \in Events("extract_info") :
                   MultiItem(log[i]) =>
                       LET entries == log[i].info[1].entries[2]
                       IN  /\ p.video_count <= Cardinality(NonNull(entries))
                           /\ p.video_count = Cardinality(Kept(entries))
                           /\ \A k \in Kept(entries) :
                                  p.videos[Rank(k, Kept(entries))]
                                      = EntryVideo(entries[k][1]).value

\* a response with a null entry between two items was mapped
C24_Witness ==
    /\ playlist_info # None
    /\ playlist_info[1].video_count = 2
    /\ \E i \in Events("extract_info") :
           /\ MultiItem(log[i])
           /\ \E k \in 1..Len(log[i].info[1].entries[2]) :
                  /\ log[i].info[1].entries[2][k] = None
                  /\ 1 < k
           /\ Cardinality(NonNull(log[i].info[1].entries[2])) > 2

=============================================================================
